---- MODULE Spec2Model ----
(***************************************************************************)
(* The request/response execution core of the `elastic` client:            *)
(* client construction, request builders, the single network call of       *)
(* send(), the response builder and the classification of a raw response   *)
(* into Ok(T), Error::Api or Error::Client.                                *)
(***************************************************************************)
EXTENDS Integers, Sequences, FiniteSets, TLC

(* ------------------------------------------------------------------ *)
(* Bounds                                                              *)
(* ------------------------------------------------------------------ *)

\* Number of requests issued from one client.
MaxRequests == 2

Requests == 1..MaxRequests

(* ------------------------------------------------------------------ *)
(* Option and Result values                                            *)
(* ------------------------------------------------------------------ *)

NoneV == [tag |-> "None"]

Some(x) == [tag |-> "Some", v |-> x]

Ok(x) == [tag |-> "Ok", v |-> x]

Err(e) == [tag |-> "Err", err |-> e]

(* ------------------------------------------------------------------ *)
(* Raw responses: status codes and bodies                              *)
(* ------------------------------------------------------------------ *)

Statuses == {200, 201, 404, 503}

IsSuccessStatus(status) == status >= 200 /\ status <= 299

\* A decoded, loosely-typed payload: the top-level fields the response
\* types and the structured-failure shape look at ("absent" = no field).
Tree(error, found, source, hits) ==
    [error |-> error, found |-> found, source |-> source, hits |-> hits]

TreeFound == Tree("absent", "true", "doc", "absent")

TreeNotFound == Tree("absent", "false", "absent", "absent")

TreeIndexNotFound == Tree("index_not_found_exception", "absent", "absent", "absent")

TreeOtherError == Tree("unknown_exception", "absent", "absent", "absent")

TreeHits == Tree("absent", "absent", "absent", "hits")

Trees == {TreeFound, TreeNotFound, TreeIndexNotFound, TreeOtherError, TreeHits}

\* A body is either well-formed structured data or plain text.
JsonBody(tree) == [fmt |-> "json", tree |-> tree]

TextBody == [fmt |-> "text"]

Bodies == {JsonBody(t) : t \in Trees} \cup {TextBody}

RawResponses == [status : Statuses, body : Bodies]

(* ------------------------------------------------------------------ *)
(* Errors                                                              *)
(* ------------------------------------------------------------------ *)

\* The causes that get wrapped: each is a value of one concrete error type.
JsonError == [type |-> "serde_json::Error"]

IoError == [type |-> "io::Error"]

ReqwestError == [type |-> "reqwest::Error"]

ResponseError_Api(e) == [type |-> "ResponseError", variant |-> "Api", api |-> e]

ResponseError_Parse == [type |-> "ResponseError", variant |-> "Parse"]

\* Error::Api and Error::Client, ClientError { inner: (cause, kind) }.
Error_Api(e) == [variant |-> "Api", api |-> e]

Error_Client(kind, cause) == [variant |-> "Client", kind |-> kind, cause |-> cause]

\* inner::ErrorKind
ErrorKind_Build == [name |-> "Build"]

ErrorKind_Request == [name |-> "Request"]

ErrorKind_Response(status) == [name |-> "Response", status |-> status]

MaybeApiError_Api(e) == [tag |-> "Api", api |-> e]

MaybeApiError_Other(e) == [tag |-> "Other", err |-> e]

build(err) == Error_Client(ErrorKind_Build, err)

\* A request() that files the error under the Response kind.
request_AsResponse(err) == Error_Client(ErrorKind_Response(0), err)

request(err) == Error_Client(ErrorKind_Request, err)

\* A conversion that wraps every ResponseError, the Api ones too.
ResponseError_into_AllOther(err) == MaybeApiError_Other(err)

ResponseError_into(err) ==
    IF err.variant = "Api" THEN MaybeApiError_Api(err.api)
    ELSE MaybeApiError_Other(err)

io_Error_into(err) == MaybeApiError_Other(err)

ReqwestError_into(err) == MaybeApiError_Other(err)

serde_json_Error_into(err) == MaybeApiError_Other(err)

\* err.into(): the Into<MaybeApiError<E>> implementation of the cause's type.
into_MaybeApiError(err) ==
    CASE err.type = "ResponseError" -> ResponseError_into(err)
      [] err.type = "io::Error" -> io_Error_into(err)
      [] err.type = "reqwest::Error" -> ReqwestError_into(err)
      [] err.type = "serde_json::Error" -> serde_json_Error_into(err)

\* A response() that forgets the status of the response it wraps.
response_NoStatus(status, err) ==
    LET m == into_MaybeApiError(err)
    IN  IF m.tag = "Api" THEN Error_Api(m.api)
        ELSE Error_Client(ErrorKind_Response(0), m.err)

response(status, err) ==
    LET m == into_MaybeApiError(err)
    IN  IF m.tag = "Api" THEN Error_Api(m.api)
        ELSE Error_Client(ErrorKind_Response(status), m.err)

(* ------------------------------------------------------------------ *)
(* The classifier                                                      *)
(* ------------------------------------------------------------------ *)

ResponseTypes == {"Value", "GetResponse", "SearchResponse"}

\* Generic structural decode of a body into a tree.
Decode(body) ==
    IF body.fmt = "json" THEN Ok(body.tree) ELSE Err(JsonError)

HasFailureShape(tree) == tree.error # "absent"

\* The ApiError a structured-failure tree decodes to.
ApiErrorOf(tree) ==
    IF tree.error = "index_not_found_exception"
    THEN [kind |-> "IndexNotFound"]
    ELSE [kind |-> "Other", type |-> tree.error]

\* A materialization for which a document that was not found is no
\* GetResponse.
Materialize_FoundOnly(T, tree) ==
    CASE T = "Value" -> Ok(tree)
      [] T = "GetResponse" ->
            IF tree.found = "true" /\ tree.source # "absent"
            THEN Ok([ty |-> "GetResponse", document |-> Some(tree.source)])
            ELSE Err(JsonError)
      [] T = "SearchResponse" ->
            IF tree.hits = "absent" THEN Err(JsonError)
            ELSE Ok([ty |-> "SearchResponse", hits |-> tree.hits])

\* Materialize T from a tree.
Materialize(T, tree) ==
    CASE T = "Value" -> Ok(tree)
      [] T = "GetResponse" ->
            IF tree.found = "absent" THEN Err(JsonError)
            ELSE Ok([ty |-> "GetResponse",
                     document |-> IF tree.found = "true" /\ tree.source # "absent"
                                  THEN Some(tree.source) ELSE NoneV])
      [] T = "SearchResponse" ->
            IF tree.hits = "absent" THEN Err(JsonError)
            ELSE Ok([ty |-> "SearchResponse", hits |-> tree.hits])

\* GetResponse::into_document
into_document(res) == res.document

\* Decoding a body directly as T.
DecodeAs(T, body) ==
    LET d == Decode(body)
    IN  IF d.tag = "Err" THEN d ELSE Materialize(T, d.v)

\* A Value predicate that takes only 200 for a success.
IsOk_Value_Only200(status) == status = 200

\* IsOk for serde_json::Value: the status code decides.
IsOk_Value(status) == IsSuccessStatus(status)

\* IsOk for the typed responses: the decoded payload decides.
IsOk_Payload(tree) == ~HasFailureShape(tree)

IsOk(T, status, tree) ==
    IF T = "Value" THEN IsOk_Value(status) ELSE IsOk_Payload(tree)

\* parse().from_response(raw): Ok(T) or a ResponseError.
from_response(T, raw) ==
    LET d == Decode(raw.body)
    IN  IF d.tag = "Err" THEN Err(ResponseError_Parse)
        ELSE IF IsOk(T, raw.status, d.v)
             THEN LET t == Materialize(T, d.v)
                  IN  IF t.tag = "Ok" THEN t ELSE Err(ResponseError_Parse)
             ELSE IF HasFailureShape(d.v)
                  THEN Err(ResponseError_Api(ApiErrorOf(d.v)))
                  ELSE Err(ResponseError_Parse)

\* An into_response that reads every body as a generic value, whatever T.
into_response_Untyped(T, raw) ==
    LET r == from_response("Value", raw)
    IN  IF r.tag = "Ok" THEN r ELSE Err(response(raw.status, r.err))

\* An into_response that rejects every non-2xx response before parsing it.
into_response_StatusFirst(T, raw) ==
    LET r == from_response(T, raw)
    IN  IF ~IsSuccessStatus(raw.status)
        THEN Err(response(raw.status,
                          IF r.tag = "Err" THEN r.err ELSE ResponseError_Parse))
        ELSE IF r.tag = "Ok" THEN r ELSE Err(response(raw.status, r.err))

\* into_response::<T>(): parse, then map the ResponseError into an Error.
into_response(T, raw) ==
    LET r == from_response(T, raw)
    IN  IF r.tag = "Ok" THEN r ELSE Err(response(raw.status, r.err))

(* ------------------------------------------------------------------ *)
(* Connection parameters                                               *)
(* ------------------------------------------------------------------ *)

ParamKeys == {"pretty", "refresh"}

\* The keys in the order the query string lists them.
ParamKeyOrder == <<"pretty", "refresh">>

NoUrlParams == [k \in ParamKeys |-> "absent"]

\* RequestParams::default()
RequestParams_default ==
    [base_url |-> "http://localhost:9200", headers |-> <<>>, url_params |-> NoUrlParams]

\* RequestParams::url_param(key, value): set, or replace, one entry.
url_param(p, key, value) ==
    [p EXCEPT !.url_params = [@ EXCEPT ![key] = value]]

\* The parameters a client is constructed with.
ClientParamChoices ==
    {RequestParams_default, url_param(RequestParams_default, "pretty", "true")}

\* The entries a request-local params(|p| p.url_param(key, value)) sets.
ParamOverrides == {<<"pretty", "false">>, <<"refresh", "true">>}

RECURSIVE QueryFrom(_, _)
QueryFrom(url_params, i) ==
    IF i > Len(ParamKeyOrder) THEN <<>>
    ELSE LET k == ParamKeyOrder[i]
         IN  (IF url_params[k] = "absent" THEN <<>> ELSE << <<k, url_params[k]>> >>)
             \o QueryFrom(url_params, i + 1)

\* The query string of a resolved url: one key=value pair per entry.
get_url_qry(p) == QueryFrom(p.url_params, 1)

(* ------------------------------------------------------------------ *)
(* Request descriptors                                                 *)
(* ------------------------------------------------------------------ *)

empty_body == ""

\* A raw request type: PingRequest::new()
PingRequest_new == [method |-> "HEAD", url |-> <<>>, body |-> empty_body]

RawRequests == {PingRequest_new}

SearchRequest_for_index(index, body) ==
    [method |-> "POST", url |-> <<index, "_search">>, body |-> body]

SearchRequest_for_index_ty(index, ty, body) ==
    [method |-> "POST", url |-> <<index, ty, "_search">>, body |-> body]

\* SearchRequestBuilder::new(body)
SearchRequestBuilder_new(body) == [index |-> NoneV, ty |-> NoneV, body |-> body]

\* An into_request that takes the type only when an index was set.
into_request_TyNeedsIndex(b) ==
    IF b.index.tag = "Some" /\ b.ty.tag = "Some"
    THEN SearchRequest_for_index_ty(b.index.v, b.ty.v, b.body)
    ELSE SearchRequest_for_index(IF b.index.tag = "Some" THEN b.index.v ELSE "_all",
                                 b.body)

\* SearchRequestBuilder::into_request
into_request(b) ==
    LET index == IF b.index.tag = "Some" THEN b.index.v ELSE "_all"
    IN  IF b.ty.tag = "Some"
        THEN SearchRequest_for_index_ty(index, b.ty.v, b.body)
        ELSE SearchRequest_for_index(index, b.body)

(* ------------------------------------------------------------------ *)
(* State                                                               *)
(* ------------------------------------------------------------------ *)

VARIABLES
    transport,  \* outcomes of the transport-handle constructions so far
    client,     \* NoneV, Ok(client) or Err(error): Client::new's result
    rq,         \* per request: its request builder
    net,        \* per request: the network calls made for it
    raw,        \* per request: the raw response the transport delivered
    rb,         \* per request: its response builder: "none", "live", "moved"
    seen,       \* per request: the values status() has returned
    reads,      \* per request: how many times the body was handed over
    out,        \* per request: what the caller got in the end
    parsed_as,  \* per request: the T its response was parsed as
    fut,        \* per request: its deferred computation (non-blocking model)
    asked,      \* per request: the index, type and body last set on its builder
    resolved,   \* per request: the requests its builder was resolved to
    cb          \* the client builder being configured, if any

vars == <<transport, client, rq, net, raw, rb, seen, reads, out, parsed_as,
          fut, asked, resolved, cb>>

NoRequest == [state |-> "none"]

\* No deferred computation: the request is not a non-blocking one (yet).
NoFuture ==
    [state |-> "none", wire |-> "idle", arrived |-> NoneV, points |-> <<>>,
     thread |-> "none"]

\* No client builder: none was made (yet).
NoBuilder == [kind |-> "none"]

\* What a fresh search builder was asked for: no index, no type, no body.
NothingAsked == [index |-> NoneV, ty |-> NoneV, body |-> empty_body]

\* The outcomes of one network round-trip: no response, or a raw response.
NetResponses ==
    {[status |-> 200, body |-> JsonBody(TreeHits)],
     [status |-> 503, body |-> TextBody]}

\* The ways a send fails: the transport's own error (connection failure,
\* malformed request) or an i/o error (timeout).
NetFailures == {ReqwestError, IoError}

NetOutcomes == {Err(e) : e \in NetFailures} \cup {Ok(resp) : resp \in NetResponses}

NoRequestsYet ==
    /\ rq = [r \in Requests |-> NoRequest]
    /\ net = [r \in Requests |-> <<>>]
    /\ raw = [r \in Requests |-> NoneV]
    /\ rb = [r \in Requests |-> "none"]
    /\ seen = [r \in Requests |-> {}]
    /\ reads = [r \in Requests |-> 0]
    /\ out = [r \in Requests |-> NoneV]
    /\ parsed_as = [r \in Requests |-> NoneV]
    /\ fut = [r \in Requests |-> NoFuture]
    /\ asked = [r \in Requests |-> NothingAsked]
    /\ resolved = [r \in Requests |-> {}]
    /\ cb = NoBuilder

Init ==
    /\ transport = <<>>
    /\ client = NoneV
    /\ NoRequestsYet

(* ------------------------------------------------------------------ *)
(* Client construction                                                 *)
(* ------------------------------------------------------------------ *)

\* A SyncSender::new whose failure is reported as a Request error.
SyncSender_new_AsRequest(ok) ==
    IF ok THEN Ok([kind |-> "sync", http |-> "new"]) ELSE Err(request(ReqwestError))

\* SyncSender::new: `ok` is whether SyncHttpClient::new() succeeds.
SyncSender_new(ok) ==
    IF ok THEN Ok([kind |-> "sync", http |-> "new"]) ELSE Err(build(ReqwestError))

\* Client<SyncSender>::new(params)
Client_new(params, ok) ==
    /\ client = NoneV
    /\ transport' = Append(transport, ok)
    /\ client' = LET http == SyncSender_new(ok)
                 IN  IF http.tag = "Err" THEN http
                     ELSE Ok([sender |-> http.v, params |-> params])
    /\ UNCHANGED <<rq, net, raw, rb, seen, reads, out, parsed_as>>
    /\ UNCHANGED <<fut, asked, resolved, cb>>

(* ------------------------------------------------------------------ *)
(* Request builders                                                    *)
(* ------------------------------------------------------------------ *)

\* RequestBuilder::new(client, params, req); `local` records the entries
\* the request's own params() calls have set.
RequestBuilder_new(kind, params, local, req) ==
    [state |-> "built", kind |-> kind, params |-> params, local |-> local, req |-> req]

\* Client::request(req) for a raw request type.
Client_request(r, req) ==
    /\ client.tag = "Ok"
    /\ rq[r].state = "none"
    /\ rq' = [rq EXCEPT ![r] = RequestBuilder_new("raw", NoneV, NoUrlParams, req)]
    /\ UNCHANGED <<transport, client, net, raw, rb, seen, reads, out, parsed_as>>
    /\ UNCHANGED <<fut, asked, resolved, cb>>

\* Client::search()
Client_search(r) ==
    /\ client.tag = "Ok"
    /\ rq[r].state = "none"
    /\ rq' = [rq EXCEPT ![r] =
                RequestBuilder_new("search", NoneV, NoUrlParams,
                                   SearchRequestBuilder_new(empty_body))]
    /\ UNCHANGED <<transport, client, net, raw, rb, seen, reads, out, parsed_as>>
    /\ UNCHANGED <<fut, asked, resolved, cb>>

\* The parameters a builder sends with: its own copy, or the client's.
ParamsOf(params) == IF params.tag = "Some" THEN params.v ELSE client.v.params

\* A params() that writes the override into the client's shared parameters.
RequestBuilder_params_Shared(r, key, value) ==
    /\ rq[r].state = "built"
    /\ rq' = [rq EXCEPT ![r].local = [@ EXCEPT ![key] = value]]
    /\ client' = [client EXCEPT !.v.params = url_param(@, key, value)]
    /\ UNCHANGED <<transport, net, raw, rb, seen, reads, out, parsed_as>>
    /\ UNCHANGED <<fut, asked, resolved, cb>>

\* RequestBuilder::params(|p| p.url_param(key, value))
RequestBuilder_params(r, key, value) ==
    /\ rq[r].state = "built"
    /\ rq' = [rq EXCEPT ![r].params = Some(url_param(ParamsOf(rq[r].params), key, value)),
                        ![r].local = [@ EXCEPT ![key] = value]]
    /\ UNCHANGED <<transport, client, net, raw, rb, seen, reads, out, parsed_as>>
    /\ UNCHANGED <<fut, asked, resolved, cb>>

\* What goes on the wire for a request sent with parameters p.
NetworkCall(p, req) ==
    [method |-> req.method, url |-> req.url, body |-> req.body,
     base_url |-> p.base_url, headers |-> p.headers, query |-> get_url_qry(p)]

\* RequestBuilder::send_raw: one network round-trip, whose outcome is
\* `outcome`; a failure to send is a Request error.
send_raw(params, req, outcome) ==
    [calls |-> <<NetworkCall(ParamsOf(params), req)>>,
     result |-> IF outcome.tag = "Err" THEN Err(request(outcome.err)) ELSE outcome]

\* send() of a raw request builder: the caller gets a response builder.
RawRequestBuilder_send(r, outcome) ==
    /\ rq[r].state = "built"
    /\ rq[r].kind = "raw"
    /\ LET s == send_raw(rq[r].params, rq[r].req, outcome)
       IN  /\ net' = [net EXCEPT ![r] = @ \o s.calls]
           /\ IF s.result.tag = "Err"
              THEN /\ out' = [out EXCEPT ![r] = s.result]
                   /\ UNCHANGED <<raw, rb>>
              ELSE /\ raw' = [raw EXCEPT ![r] = Some(s.result.v)]
                   /\ rb' = [rb EXCEPT ![r] = "live"]
                   /\ UNCHANGED out
    /\ rq' = [rq EXCEPT ![r].state = "sent"]
    /\ UNCHANGED <<transport, client, seen, reads, parsed_as>>
    /\ UNCHANGED <<fut, asked, resolved, cb>>

\* A send() that sends once more when the first attempt fails.
send_Retry(params, req, outcome) ==
    LET s == send_raw(params, into_request(req), outcome)
    IN  [calls |-> IF s.result.tag = "Err" THEN s.calls \o s.calls ELSE s.calls,
         raw |-> IF s.result.tag = "Err" THEN NoneV ELSE Some(s.result.v),
         result |-> IF s.result.tag = "Err" THEN s.result
                    ELSE into_response("SearchResponse", s.result.v)]

\* A send() that leaves the builder's own parameters behind.
send_DropParams(params, req, outcome) ==
    LET s == send_raw(NoneV, into_request(req), outcome)
    IN  [calls |-> s.calls,
         raw |-> IF s.result.tag = "Err" THEN NoneV ELSE Some(s.result.v),
         result |-> IF s.result.tag = "Err" THEN s.result
                    ELSE into_response("SearchResponse", s.result.v)]

\* A send() that goes on to parse when the send failed, and returns what
\* the parse step made of the missing response.
send_ParseAnyway(params, req, outcome) ==
    LET s == send_raw(params, into_request(req), outcome)
    IN  [calls |-> s.calls,
         raw |-> IF s.result.tag = "Err" THEN NoneV ELSE Some(s.result.v),
         result |-> into_response("SearchResponse",
                                  IF s.result.tag = "Err"
                                  THEN [status |-> 503, body |-> TextBody]
                                  ELSE s.result.v)]

\* RequestBuilder<SearchRequestBuilder>::send:
\* into_request, send_raw, and_then(into_response).
send(params, req, outcome) ==
    LET s == send_raw(params, into_request(req), outcome)
    IN  [calls |-> s.calls,
         raw |-> IF s.result.tag = "Err" THEN NoneV ELSE Some(s.result.v),
         result |-> IF s.result.tag = "Err" THEN s.result
                    ELSE into_response("SearchResponse", s.result.v)]

\* A send() that stores the parameters it sent with into the client.
SearchRequestBuilder_send_WriteBack(r, outcome) ==
    /\ rq[r].state = "built"
    /\ rq[r].kind = "search"
    /\ LET s == send(rq[r].params, rq[r].req, outcome)
       IN  /\ net' = [net EXCEPT ![r] = @ \o s.calls]
           /\ raw' = [raw EXCEPT ![r] = s.raw]
           /\ rb' = [rb EXCEPT ![r] = IF s.raw.tag = "Some" THEN "moved" ELSE @]
           /\ reads' = [reads EXCEPT ![r] = IF s.raw.tag = "Some" THEN @ + 1 ELSE @]
           /\ out' = [out EXCEPT ![r] = s.result]
           /\ parsed_as' = [parsed_as EXCEPT ![r] =
                              IF s.raw.tag = "Some" THEN Some("SearchResponse") ELSE @]
    /\ rq' = [rq EXCEPT ![r].state = "sent"]
    /\ client' = [client EXCEPT !.v.params = ParamsOf(rq[r].params)]
    /\ UNCHANGED <<transport, seen>>
    /\ UNCHANGED <<fut, asked, resolved, cb>>

\* send() of a search request builder: the caller gets the typed result.
SearchRequestBuilder_send(r, outcome) ==
    /\ rq[r].state = "built"
    /\ rq[r].kind = "search"
    /\ LET s == send(rq[r].params, rq[r].req, outcome)
       IN  /\ net' = [net EXCEPT ![r] = @ \o s.calls]
           /\ raw' = [raw EXCEPT ![r] = s.raw]
           /\ rb' = [rb EXCEPT ![r] = IF s.raw.tag = "Some" THEN "moved" ELSE @]
           /\ reads' = [reads EXCEPT ![r] = IF s.raw.tag = "Some" THEN @ + 1 ELSE @]
           /\ out' = [out EXCEPT ![r] = s.result]
           /\ parsed_as' = [parsed_as EXCEPT ![r] =
                              IF s.raw.tag = "Some" THEN Some("SearchResponse") ELSE @]
    /\ rq' = [rq EXCEPT ![r].state = "sent"]
    /\ UNCHANGED <<transport, client, seen>>
    /\ UNCHANGED <<fut, asked, resolved, cb>>

(* ------------------------------------------------------------------ *)
(* The search request builder                                          *)
(* ------------------------------------------------------------------ *)

Indices == {"new-idx", "other-idx"}

Types == {"new-ty"}

SearchBodies == {"{}"}

\* RequestBuilder::index(index)
RequestBuilder_index(r, index) ==
    /\ rq[r].state = "built"
    /\ rq[r].kind = "search"
    /\ rq' = [rq EXCEPT ![r].req.index = Some(index)]
    /\ asked' = [asked EXCEPT ![r].index = Some(index)]
    /\ UNCHANGED <<transport, client, net, raw, rb, seen, reads, out, parsed_as>>
    /\ UNCHANGED <<fut, resolved, cb>>

\* RequestBuilder::ty(ty), ty an Option.
RequestBuilder_ty(r, ty) ==
    /\ rq[r].state = "built"
    /\ rq[r].kind = "search"
    /\ rq' = [rq EXCEPT ![r].req.ty = IF ty.tag = "Some" THEN Some(ty.v) ELSE NoneV]
    /\ asked' = [asked EXCEPT ![r].ty = ty]
    /\ UNCHANGED <<transport, client, net, raw, rb, seen, reads, out, parsed_as>>
    /\ UNCHANGED <<fut, resolved, cb>>

\* A body() that starts from a fresh search builder.
RequestBuilder_body_Fresh(r, body) ==
    /\ rq[r].state = "built"
    /\ rq[r].kind = "search"
    /\ rq' = [rq EXCEPT ![r] =
                RequestBuilder_new("search", rq[r].params, rq[r].local,
                                   SearchRequestBuilder_new(body))]
    /\ asked' = [asked EXCEPT ![r].body = body]
    /\ UNCHANGED <<transport, client, net, raw, rb, seen, reads, out, parsed_as>>
    /\ UNCHANGED <<fut, resolved, cb>>

\* RequestBuilder::body(body): a new builder with the client and the
\* parameters of the old one, and a search builder with the new body and
\* the old index and type.
RequestBuilder_body(r, body) ==
    /\ rq[r].state = "built"
    /\ rq[r].kind = "search"
    /\ rq' = [rq EXCEPT ![r] =
                RequestBuilder_new("search", rq[r].params, rq[r].local,
                                   [body |-> body,
                                    index |-> rq[r].req.index,
                                    ty |-> rq[r].req.ty])]
    /\ asked' = [asked EXCEPT ![r].body = body]
    /\ UNCHANGED <<transport, client, net, raw, rb, seen, reads, out, parsed_as>>
    /\ UNCHANGED <<fut, resolved, cb>>

\* A resolution that also puts the request on the wire.
RequestBuilder_resolve_Sending(r) ==
    /\ rq[r].state = "built"
    /\ rq[r].kind = "search"
    /\ resolved' = [resolved EXCEPT ![r] =
                      {NetworkCall(ParamsOf(rq[r].params), into_request(rq[r].req))}]
    /\ net' = [net EXCEPT ![r] =
                 <<NetworkCall(ParamsOf(rq[r].params), into_request(rq[r].req))>>]
    /\ rq' = [rq EXCEPT ![r].state = "resolved"]
    /\ UNCHANGED <<transport, client, raw, rb, seen, reads, out, parsed_as>>
    /\ UNCHANGED <<fut, asked, cb>>

\* builder.req.into_request(): the builder is taken apart and resolved to
\* the request it would send, with the parameters it would send it with.
RequestBuilder_resolve(r) ==
    /\ rq[r].state = "built"
    /\ rq[r].kind = "search"
    /\ resolved' = [resolved EXCEPT ![r] =
                      {NetworkCall(ParamsOf(rq[r].params), into_request(rq[r].req))}]
    /\ rq' = [rq EXCEPT ![r].state = "resolved"]
    /\ UNCHANGED <<transport, client, net, raw, rb, seen, reads, out, parsed_as>>
    /\ UNCHANGED <<fut, asked, cb>>

(* ------------------------------------------------------------------ *)
(* Response builder                                                    *)
(* ------------------------------------------------------------------ *)

\* AsyncResponseBuilder::status(&self)
AsyncResponseBuilder_status(r) ==
    /\ rb[r] = "live"
    /\ seen' = [seen EXCEPT ![r] = @ \cup {raw[r].v.status}]
    /\ UNCHANGED <<transport, client, rq, net, raw, rb, reads, out, parsed_as>>
    /\ UNCHANGED <<fut, asked, resolved, cb>>

\* The AsyncHttpResponse into_raw hands over.
AsyncHttpResponse(resp) == [tag |-> "Raw", status |-> resp.status, body |-> resp.body]

\* An into_raw that borrows the builder instead of consuming it.
AsyncResponseBuilder_into_raw_Borrow(r) ==
    /\ rb[r] = "live"
    /\ reads' = [reads EXCEPT ![r] = @ + 1]
    /\ out' = [out EXCEPT ![r] = AsyncHttpResponse(raw[r].v)]
    /\ UNCHANGED <<transport, client, rq, net, raw, rb, seen, parsed_as>>
    /\ UNCHANGED <<fut, asked, resolved, cb>>

\* AsyncResponseBuilder::into_raw(self)
AsyncResponseBuilder_into_raw(r) ==
    /\ rb[r] = "live"
    /\ rb' = [rb EXCEPT ![r] = "moved"]
    /\ reads' = [reads EXCEPT ![r] = @ + 1]
    /\ out' = [out EXCEPT ![r] = AsyncHttpResponse(raw[r].v)]
    /\ UNCHANGED <<transport, client, rq, net, raw, seen, parsed_as>>
    /\ UNCHANGED <<fut, asked, resolved, cb>>

\* AsyncResponseBuilder::into_response::<T>(self)
AsyncResponseBuilder_into_response(r, T) ==
    /\ rb[r] = "live"
    /\ rb' = [rb EXCEPT ![r] = "moved"]
    /\ reads' = [reads EXCEPT ![r] = @ + 1]
    /\ out' = [out EXCEPT ![r] = into_response(T, raw[r].v)]
    /\ parsed_as' = [parsed_as EXCEPT ![r] = Some(T)]
    /\ UNCHANGED <<transport, client, rq, net, raw, seen>>
    /\ UNCHANGED <<fut, asked, resolved, cb>>

\* A blocking into_response that takes a non-2xx status for a failure
\* before it looks at the body.
sync_into_response_StatusFirst(T, resp) ==
    IF ~IsSuccessStatus(resp.status)
    THEN Err(Error_Client(ErrorKind_Response(resp.status), ResponseError_Parse))
    ELSE LET r == from_response(T, resp)
         IN  IF r.tag = "Ok" THEN r ELSE Err(response(resp.status, r.err))

\* into_response::<T>() of the blocking response builder: the status is
\* kept, the body is read and classified, and a failure is mapped to an
\* Error with the status.
sync_into_response(T, resp) ==
    LET status == resp.status
        r == from_response(T, [status |-> status, body |-> resp.body])
    IN  CASE r.tag = "Ok" -> Ok(r.v)
          [] r.tag = "Err" -> Err(response(status, r.err))

\* SyncResponseBuilder::into_response::<T>(self): the caller blocks until
\* the result is there.
SyncResponseBuilder_into_response(r, T) ==
    /\ rb[r] = "live"
    /\ fut[r].state = "none"
    /\ rb' = [rb EXCEPT ![r] = "moved"]
    /\ reads' = [reads EXCEPT ![r] = @ + 1]
    /\ out' = [out EXCEPT ![r] = sync_into_response(T, raw[r].v)]
    /\ parsed_as' = [parsed_as EXCEPT ![r] = Some(T)]
    /\ UNCHANGED <<transport, client, rq, net, raw, seen>>
    /\ UNCHANGED <<fut, asked, resolved, cb>>

(* ------------------------------------------------------------------ *)
(* The non-blocking sender                                             *)
(* ------------------------------------------------------------------ *)

\* CpuPool::new(n)
CpuPool_new(n) == [threads |-> n]

\* AsyncClientBuilder::new(): a default pool of four threads.
AsyncClientBuilder_new ==
    [http |-> NoneV, de_pool |-> Some(CpuPool_new(4)), params |-> RequestParams_default]

\* A de_pool() that takes a pool but keeps the one it has when given None.
AsyncClientBuilder_de_pool_KeepPool(b, de_pool) ==
    IF de_pool.tag = "None" THEN b ELSE [b EXCEPT !.de_pool = de_pool]

\* AsyncClientBuilder::de_pool(de_pool)
AsyncClientBuilder_de_pool(b, de_pool) == [b EXCEPT !.de_pool = de_pool]

\* AsyncClientBuilder::build(handle): `ok` is whether
\* AsyncHttpClient::new(handle) succeeds.
AsyncClientBuilder_build(b, ok) ==
    IF b.http.tag = "None" /\ ~ok THEN Err(build(ReqwestError))
    ELSE Ok([sender |-> [kind |-> "async",
                         http |-> IF b.http.tag = "Some" THEN b.http.v ELSE "new",
                         de_pool |-> b.de_pool],
             params |-> b.params])

\* The builders a non-blocking client is built from: the default one, and
\* one told to use no pool.
AsyncClientBuilders ==
    {AsyncClientBuilder_new, AsyncClientBuilder_de_pool(AsyncClientBuilder_new, NoneV)}

\* builder.build(handle)
AsyncClient_build(b, ok) ==
    /\ client = NoneV
    /\ transport' = Append(transport, ok)
    /\ client' = AsyncClientBuilder_build(b, ok)
    /\ UNCHANGED <<rq, net, raw, rb, seen, reads, out, parsed_as>>
    /\ UNCHANGED <<fut, asked, resolved, cb>>

\* Client<AsyncSender>::new(handle, params)
AsyncClient_new(params, ok) ==
    /\ client = NoneV
    /\ transport' = Append(transport, ok)
    /\ client' = IF ~ok THEN Err(build(ReqwestError))
                 ELSE Ok([sender |-> [kind |-> "async", http |-> "new", de_pool |-> NoneV],
                          params |-> params])
    /\ UNCHANGED <<rq, net, raw, rb, seen, reads, out, parsed_as>>
    /\ UNCHANGED <<fut, asked, resolved, cb>>

\* send() of a non-blocking request builder: the call goes to the
\* transport and the caller gets a deferred computation, suspended on the
\* network round-trip.
AsyncRequestBuilder_send(r) ==
    /\ client.tag = "Ok"
    /\ client.v.sender.kind = "async"
    /\ rq[r].state = "built"
    /\ rq[r].kind = "raw"
    /\ net' = [net EXCEPT ![r] = @ \o <<NetworkCall(ParamsOf(rq[r].params), rq[r].req)>>]
    /\ rq' = [rq EXCEPT ![r].state = "sent"]
    /\ fut' = [fut EXCEPT ![r] =
                 [state |-> "awaiting_net", wire |-> "inflight", arrived |-> NoneV,
                  points |-> <<"network">>, thread |-> "none"]]
    /\ UNCHANGED <<transport, client, raw, rb, seen, reads, out, parsed_as>>
    /\ UNCHANGED <<asked, resolved, cb>>

\* The transport finishes the round-trip of request r, whether or not
\* anybody still waits for it.
Transport_complete(r, outcome) ==
    /\ fut[r].wire = "inflight"
    /\ fut' = [fut EXCEPT ![r].wire = "completed", ![r].arrived = Some(outcome)]
    /\ UNCHANGED <<transport, client, rq, net, raw, rb, seen, reads, out, parsed_as>>
    /\ UNCHANGED <<asked, resolved, cb>>

\* A reactor that runs the continuation of a computation that was dropped.
Reactor_deliver_Detached(r) ==
    /\ fut[r].state \in {"awaiting_net", "dropped"}
    /\ fut[r].wire = "completed"
    /\ IF fut[r].arrived.v.tag = "Err"
       THEN /\ out' = [out EXCEPT ![r] = Err(request(fut[r].arrived.v.err))]
            /\ fut' = [fut EXCEPT ![r].state = "done"]
            /\ UNCHANGED <<raw, rb>>
       ELSE /\ raw' = [raw EXCEPT ![r] = Some(fut[r].arrived.v.v)]
            /\ rb' = [rb EXCEPT ![r] = "live"]
            /\ fut' = [fut EXCEPT ![r].state = "received"]
            /\ UNCHANGED out
    /\ UNCHANGED <<transport, client, rq, net, seen, reads, parsed_as>>
    /\ UNCHANGED <<asked, resolved, cb>>

\* The reactor resumes the computation waiting for the round-trip: a
\* failure to send is its result, a response goes to the continuation as a
\* response builder.
Reactor_deliver(r) ==
    /\ fut[r].state = "awaiting_net"
    /\ fut[r].wire = "completed"
    /\ IF fut[r].arrived.v.tag = "Err"
       THEN /\ out' = [out EXCEPT ![r] = Err(request(fut[r].arrived.v.err))]
            /\ fut' = [fut EXCEPT ![r].state = "done"]
            /\ UNCHANGED <<raw, rb>>
       ELSE /\ raw' = [raw EXCEPT ![r] = Some(fut[r].arrived.v.v)]
            /\ rb' = [rb EXCEPT ![r] = "live"]
            /\ fut' = [fut EXCEPT ![r].state = "received"]
            /\ UNCHANGED out
    /\ UNCHANGED <<transport, client, rq, net, seen, reads, parsed_as>>
    /\ UNCHANGED <<asked, resolved, cb>>

\* AsyncResponseBuilder::into_response::<T>(self) in a continuation: the
\* builder is consumed and a boxed future of the parse is returned.
AsyncResponseBuilder_into_response_future(r, T) ==
    /\ rb[r] = "live"
    /\ fut[r].state = "received"
    /\ rb' = [rb EXCEPT ![r] = "moved"]
    /\ reads' = [reads EXCEPT ![r] = @ + 1]
    /\ parsed_as' = [parsed_as EXCEPT ![r] = Some(T)]
    /\ fut' = [fut EXCEPT ![r].state = "parse_pending"]
    /\ UNCHANGED <<transport, client, rq, net, raw, seen, out>>
    /\ UNCHANGED <<asked, resolved, cb>>

\* The future into_response returned is polled: the parse runs where the
\* future is polled, on the reactor's thread; the builder the future was
\* made from holds the raw response and nothing else.
Future_poll(r) ==
    /\ fut[r].state = "parse_pending"
    /\ out' = [out EXCEPT ![r] = into_response(parsed_as[r].v, raw[r].v)]
    /\ fut' = [fut EXCEPT ![r].state = "done", ![r].thread = "reactor"]
    /\ UNCHANGED <<transport, client, rq, net, raw, rb, seen, reads, parsed_as>>
    /\ UNCHANGED <<asked, resolved, cb>>

\* The caller drops the deferred computation before it completed.
Future_drop(r) ==
    /\ fut[r].state \in {"awaiting_net", "received", "parse_pending"}
    /\ fut' = [fut EXCEPT ![r].state = "dropped"]
    /\ UNCHANGED <<transport, client, rq, net, raw, rb, seen, reads, out, parsed_as>>
    /\ UNCHANGED <<asked, resolved, cb>>

(* ------------------------------------------------------------------ *)
(* The client builders                                                 *)
(* ------------------------------------------------------------------ *)

\* The HTTP clients a caller hands to http_client().
HttpClients == {"given"}

\* The base urls and the pools a caller configures.
BaseUrls == {"https://my_es_cluster/some_path"}

PoolChoices == {NoneV, Some(CpuPool_new(2))}

\* RequestParams::base_url(base_url)
RequestParams_base_url(p, base_url) == [p EXCEPT !.base_url = base_url]

\* SyncClientBuilder::new()
SyncClientBuilder_new == [http |-> NoneV, params |-> RequestParams_default]

\* SyncClientBuilder::base_url / AsyncClientBuilder::base_url
ClientBuilder_base_url(b, base_url) ==
    [b EXCEPT !.params = RequestParams_base_url(b.params, base_url)]

\* SyncClientBuilder::params / AsyncClientBuilder::params, the closure
\* being |p| p.url_param(key, value).
ClientBuilder_params(b, key, value) ==
    [b EXCEPT !.params = url_param(b.params, key, value)]

\* SyncClientBuilder::http_client / AsyncClientBuilder::http_client
ClientBuilder_http_client(b, http) == [b EXCEPT !.http = Some(http)]

\* SyncClientBuilder::build(): the given client if there is one, else
\* SyncClient::new(params). `made` lists the transport handles constructed.
SyncClientBuilder_build(b, ok) ==
    IF b.http.tag = "Some"
    THEN [made |-> <<>>,
          result |-> Ok([sender |-> [kind |-> "sync", http |-> b.http.v],
                         params |-> b.params])]
    ELSE [made |-> <<ok>>,
          result |-> LET http == SyncSender_new(ok)
                     IN  IF http.tag = "Err" THEN http
                         ELSE Ok([sender |-> http.v, params |-> b.params])]

\* The transport handles AsyncClientBuilder::build(handle) constructs:
\* AsyncHttpClient::new(handle) is the argument of unwrap_or, evaluated
\* before unwrap_or looks at the client that was given.
AsyncClientBuilder_build_made(b, ok) == <<ok>>

\* A builder is made and is configured step by step; the steps record the
\* client given and the pool last passed.
Builder_new(kind) ==
    /\ client = NoneV
    /\ cb = NoBuilder
    /\ cb' = [kind |-> kind,
              b |-> IF kind = "sync" THEN SyncClientBuilder_new ELSE AsyncClientBuilder_new,
              given |-> NoneV,
              pool_passed |-> NoneV]
    /\ UNCHANGED <<transport, client, rq, net, raw, rb, seen, reads, out, parsed_as>>
    /\ UNCHANGED <<fut, asked, resolved>>

Builder_base_url(base_url) ==
    /\ client = NoneV
    /\ cb.kind # "none"
    /\ cb' = [cb EXCEPT !.b = ClientBuilder_base_url(@, base_url)]
    /\ UNCHANGED <<transport, client, rq, net, raw, rb, seen, reads, out, parsed_as>>
    /\ UNCHANGED <<fut, asked, resolved>>

Builder_params(key, value) ==
    /\ client = NoneV
    /\ cb.kind # "none"
    /\ cb' = [cb EXCEPT !.b = ClientBuilder_params(@, key, value)]
    /\ UNCHANGED <<transport, client, rq, net, raw, rb, seen, reads, out, parsed_as>>
    /\ UNCHANGED <<fut, asked, resolved>>

Builder_http_client(http) ==
    /\ client = NoneV
    /\ cb.kind # "none"
    /\ cb' = [cb EXCEPT !.b = ClientBuilder_http_client(@, http), !.given = Some(http)]
    /\ UNCHANGED <<transport, client, rq, net, raw, rb, seen, reads, out, parsed_as>>
    /\ UNCHANGED <<fut, asked, resolved>>

Builder_de_pool(de_pool) ==
    /\ client = NoneV
    /\ cb.kind = "async"
    /\ cb' = [cb EXCEPT !.b = AsyncClientBuilder_de_pool(@, de_pool),
                        !.pool_passed = Some(de_pool)]
    /\ UNCHANGED <<transport, client, rq, net, raw, rb, seen, reads, out, parsed_as>>
    /\ UNCHANGED <<fut, asked, resolved>>

\* builder.build() of a SyncClientBuilder
SyncClient_build(ok) ==
    /\ client = NoneV
    /\ cb.kind = "sync"
    /\ LET built == SyncClientBuilder_build(cb.b, ok)
       IN  /\ transport' = transport \o built.made
           /\ client' = built.result
    /\ UNCHANGED <<rq, net, raw, rb, seen, reads, out, parsed_as>>
    /\ UNCHANGED <<fut, asked, resolved, cb>>

\* builder.build(handle) of an AsyncClientBuilder
AsyncClientBuilder_build_step(ok) ==
    /\ client = NoneV
    /\ cb.kind = "async"
    /\ transport' = transport \o AsyncClientBuilder_build_made(cb.b, ok)
    /\ client' = AsyncClientBuilder_build(cb.b, ok)
    /\ UNCHANGED <<rq, net, raw, rb, seen, reads, out, parsed_as>>
    /\ UNCHANGED <<fut, asked, resolved, cb>>

(* ------------------------------------------------------------------ *)
(* Specifications                                                      *)
(* ------------------------------------------------------------------ *)

\* The pipeline: construct a client, build and send requests, consume the
\* responses.
Next ==
    \/ \E p \in ClientParamChoices, ok \in BOOLEAN : Client_new(p, ok)
    \/ \E r \in Requests, req \in RawRequests : Client_request(r, req)
    \/ \E r \in Requests : Client_search(r)
    \/ \E r \in Requests, kv \in ParamOverrides : RequestBuilder_params(r, kv[1], kv[2])
    \/ \E r \in Requests, o \in NetOutcomes : RawRequestBuilder_send(r, o)
    \/ \E r \in Requests, o \in NetOutcomes : SearchRequestBuilder_send(r, o)
    \/ \E r \in Requests : AsyncResponseBuilder_into_raw(r)
    \/ \E r \in Requests, T \in ResponseTypes : AsyncResponseBuilder_into_response(r, T)

Spec == Init /\ [][Next]_vars

\* One response builder over any raw response a sent request can receive.
InitResponse ==
    /\ transport = <<TRUE>>
    /\ client = Ok([sender |-> SyncSender_new(TRUE).v, params |-> RequestParams_default])
    /\ rq = [r \in Requests |->
               IF r = 1
               THEN [RequestBuilder_new("raw", NoneV, NoUrlParams, PingRequest_new)
                       EXCEPT !.state = "sent"]
               ELSE NoRequest]
    /\ net = [r \in Requests |->
               IF r = 1 THEN <<NetworkCall(RequestParams_default, PingRequest_new)>>
               ELSE <<>>]
    /\ \E resp \in RawResponses :
           raw = [r \in Requests |-> IF r = 1 THEN Some(resp) ELSE NoneV]
    /\ rb = [r \in Requests |-> IF r = 1 THEN "live" ELSE "none"]
    /\ seen = [r \in Requests |-> {}]
    /\ reads = [r \in Requests |-> 0]
    /\ out = [r \in Requests |-> NoneV]
    /\ parsed_as = [r \in Requests |-> NoneV]
    /\ fut = [r \in Requests |-> NoFuture]
    /\ asked = [r \in Requests |-> NothingAsked]
    /\ resolved = [r \in Requests |-> {}]
    /\ cb = NoBuilder

NextResponse ==
    \/ \E r \in Requests : AsyncResponseBuilder_status(r)
    \/ \E r \in Requests : AsyncResponseBuilder_into_raw(r)
    \/ \E r \in Requests, T \in ResponseTypes : AsyncResponseBuilder_into_response(r, T)

SpecResponse == InitResponse /\ [][NextResponse]_vars

\* The override a search request sets, and the response a search gets.
SearchOverrides == {<<"pretty", "false">>}

SearchOutcomes == {Ok([status |-> 200, body |-> JsonBody(TreeHits)])}

\* Search requests of one client being assembled, resolved and sent.
InitSearch ==
    /\ transport = <<TRUE>>
    /\ client = Ok([sender |-> SyncSender_new(TRUE).v,
                    params |-> url_param(RequestParams_default, "pretty", "true")])
    /\ NoRequestsYet

NextSearch ==
    \/ \E r \in Requests : Client_search(r)
    \/ \E r \in Requests, i \in Indices : RequestBuilder_index(r, i)
    \/ \E r \in Requests, t \in {NoneV} \cup {Some(t) : t \in Types} : RequestBuilder_ty(r, t)
    \/ \E r \in Requests, b \in SearchBodies : RequestBuilder_body(r, b)
    \/ \E r \in Requests, kv \in SearchOverrides : RequestBuilder_params(r, kv[1], kv[2])
    \/ \E r \in Requests : RequestBuilder_resolve(r)
    \/ \E r \in Requests, o \in SearchOutcomes : SearchRequestBuilder_send(r, o)

SpecSearch == InitSearch /\ [][NextSearch]_vars

\* The non-blocking pipeline: build a client, send requests, let the
\* transport and the reactor run, parse or drop.
NextAsync ==
    \/ \E b \in AsyncClientBuilders, ok \in BOOLEAN : AsyncClient_build(b, ok)
    \/ \E ok \in BOOLEAN : AsyncClient_new(RequestParams_default, ok)
    \/ \E r \in Requests, req \in RawRequests : Client_request(r, req)
    \/ \E r \in Requests : AsyncRequestBuilder_send(r)
    \/ \E r \in Requests, o \in NetOutcomes : Transport_complete(r, o)
    \/ \E r \in Requests : Reactor_deliver(r)
    \/ \E r \in Requests, T \in ResponseTypes :
          AsyncResponseBuilder_into_response_future(r, T)
    \/ \E r \in Requests : Future_poll(r)
    \/ \E r \in Requests : Future_drop(r)

SpecAsync == Init /\ [][NextAsync]_vars

\* The same raw response in the hands of a blocking response builder
\* (request 1) and of non-blocking ones (the other requests), the latter
\* with and without a worker pool on the sender.
InitSenders ==
    /\ transport = <<TRUE>>
    /\ \E b \in AsyncClientBuilders : client = AsyncClientBuilder_build(b, TRUE)
    /\ rq = [r \in Requests |->
               [RequestBuilder_new("raw", NoneV, NoUrlParams, PingRequest_new)
                  EXCEPT !.state = "sent"]]
    /\ net = [r \in Requests |-> <<NetworkCall(RequestParams_default, PingRequest_new)>>]
    /\ \E resp \in RawResponses :
          /\ raw = [r \in Requests |-> Some(resp)]
          /\ fut = [r \in Requests |->
                      IF r = 1 THEN NoFuture
                      ELSE [state |-> "received", wire |-> "completed",
                            arrived |-> Some(Ok(resp)), points |-> <<"network">>,
                            thread |-> "none"]]
    /\ rb = [r \in Requests |-> "live"]
    /\ seen = [r \in Requests |-> {}]
    /\ reads = [r \in Requests |-> 0]
    /\ out = [r \in Requests |-> NoneV]
    /\ parsed_as = [r \in Requests |-> NoneV]
    /\ asked = [r \in Requests |-> NothingAsked]
    /\ resolved = [r \in Requests |-> {}]
    /\ cb = NoBuilder

NextSenders ==
    \/ \E r \in Requests, T \in ResponseTypes : SyncResponseBuilder_into_response(r, T)
    \/ \E r \in Requests, T \in ResponseTypes :
          AsyncResponseBuilder_into_response_future(r, T)
    \/ \E r \in Requests : Future_poll(r)

SpecSenders == InitSenders /\ [][NextSenders]_vars

\* Constructing a client: through a builder, or with Client::new.
NextBuilders ==
    \/ \E kind \in {"sync", "async"} : Builder_new(kind)
    \/ \E u \in BaseUrls : Builder_base_url(u)
    \/ \E kv \in ParamOverrides : Builder_params(kv[1], kv[2])
    \/ \E http \in HttpClients : Builder_http_client(http)
    \/ \E p \in PoolChoices : Builder_de_pool(p)
    \/ \E ok \in BOOLEAN : SyncClient_build(ok)
    \/ \E ok \in BOOLEAN : AsyncClientBuilder_build_step(ok)
    \/ \E p \in ClientParamChoices, ok \in BOOLEAN : cb = NoBuilder /\ Client_new(p, ok)
    \/ \E p \in ClientParamChoices, ok \in BOOLEAN : cb = NoBuilder /\ AsyncClient_new(p, ok)

SpecBuilders == Init /\ [][NextBuilders]_vars

(* ------------------------------------------------------------------ *)
(* Claims about the classification of a raw response                   *)
(* ------------------------------------------------------------------ *)

\* Request r's response has been parsed as some T by into_response.
Parsed(r) == raw[r].tag = "Some" /\ parsed_as[r].tag = "Some"

IsClientResponseError(res, status) ==
    /\ res.tag = "Err"
    /\ res.err.variant = "Client"
    /\ res.err.kind = ErrorKind_Response(status)

IsApiError(res) == res.tag = "Err" /\ res.err.variant = "Api"

\* The outcome variant of a result: Ok, Api or Client.
VariantOf(res) == IF res.tag = "Ok" THEN "Ok" ELSE res.err.variant

PayloadDecides(r) ==
    LET resp == raw[r].v
        T == parsed_as[r].v
        d == Decode(resp.body)
    IN  d.tag = "Ok" =>
            /\ (IsSuccessStatus(resp.status) /\ ~IsOk(T, resp.status, d.v))
               => IsApiError(out[r])
            /\ (/\ ~IsSuccessStatus(resp.status)
                /\ IsOk(T, resp.status, d.v)
                /\ Materialize(T, d.v).tag = "Ok")
               => out[r] = Materialize(T, d.v)
            /\ \A s \in Statuses :
                   VariantOf(out[r])
                     = VariantOf(into_response(T, [status |-> s, body |-> resp.body]))

C6_BodyConsumedAtMostOnce ==
    \A r \in Requests :
        /\ reads[r] <= 1
        /\ raw[r].tag = "Some" => seen[r] \subseteq {raw[r].v.status}
        /\ rb[r] = "live" => (reads[r] = 0 /\ out[r] = NoneV)
        /\ rb[r] = "moved" =>
              /\ reads[r] = 1
              /\ ~ENABLED AsyncResponseBuilder_into_raw(r)
              /\ \A T \in ResponseTypes : ~ENABLED AsyncResponseBuilder_into_response(r, T)

\* status() was called on a builder that was then consumed by into_raw().
C6_Witness ==
    \E r \in Requests :
        /\ seen[r] # {}
        /\ rb[r] = "moved"
        /\ reads[r] = 1
        /\ out[r].tag = "Raw"

(* ------------------------------------------------------------------ *)
(* Claims about sending requests and about the client                  *)
(* ------------------------------------------------------------------ *)

\* The descriptor request r's builder stands for.
DescriptorOf(r) ==
    IF rq[r].kind = "search" THEN into_request(rq[r].req) ELSE rq[r].req

\* The url parameters of request r: the client's entries, each replaced by
\* the request's own entry for the key where it has one.
MergedUrlParams(r) ==
    [k \in ParamKeys |->
        IF rq[r].local[k] # "absent" THEN rq[r].local[k]
        ELSE client.v.params.url_params[k]]

\* The values the query string q gives for key k, one per occurrence.
RECURSIVE ValuesFor(_, _)
ValuesFor(q, k) ==
    IF q = <<>> THEN <<>>
    ELSE (IF Head(q)[1] = k THEN <<Head(q)[2]>> ELSE <<>>) \o ValuesFor(Tail(q), k)

IsRequestError(res) ==
    res.tag = "Err" /\ res.err.variant = "Client" /\ res.err.kind = ErrorKind_Request

\* C7: a request that was sent made exactly one network call, with the
\* merged parameters and its descriptor's method, url and body, also when
\* the send or the response failed; a request not yet sent made none, and a
\* sent builder cannot be sent again.
C7_ExactlyOneNetworkCall ==
    \A r \in Requests :
        /\ rq[r].state # "sent" => net[r] = <<>>
        /\ rq[r].state = "sent" =>
              /\ Len(net[r]) = 1
              /\ net[r][1].method = DescriptorOf(r).method
              /\ net[r][1].url = DescriptorOf(r).url
              /\ net[r][1].body = DescriptorOf(r).body
              /\ net[r][1].base_url = client.v.params.base_url
              /\ net[r][1].headers = client.v.params.headers
              /\ net[r][1].query = QueryFrom(MergedUrlParams(r), 1)
              /\ \A o \in NetOutcomes :
                    /\ ~ENABLED RawRequestBuilder_send(r, o)
                    /\ ~ENABLED SearchRequestBuilder_send(r, o)
        /\ out[r].tag = "Err" => Len(net[r]) = 1

\* One request failed to send and another got a response that could not be
\* parsed; each made one network call.
C7_Witness ==
    \E r1, r2 \in Requests :
        /\ rq[r1].state = "sent"
        /\ IsRequestError(out[r1])
        /\ Len(net[r1]) = 1
        /\ rq[r2].state = "sent"
        /\ rq[r2].kind = "search"
        /\ IsClientResponseError(out[r2], 503)
        /\ Len(net[r2]) = 1

\* C8: no request, whatever parameters it overrides, changes the client:
\* its shared connection parameters stay those it was constructed with.
C8_ClientParamsUnchanged ==
    [][client.tag = "Ok" => client' = client]_vars

\* A request with parameters of its own, different from the client's, was sent.
C8_Witness ==
    \E r \in Requests :
        /\ rq[r].state = "sent"
        /\ rq[r].params.tag = "Some"
        /\ rq[r].params.v # client.v.params
        /\ client.v.params \in ClientParamChoices

\* C9: the query string a request is sent with has, for every key, exactly
\* one entry with the request-local value when the request set the key,
\* exactly one entry with the client-wide value when only the client set
\* it, and no entry when neither did.
C9_RequestLocalWins ==
    \A r \in Requests :
        rq[r].state = "sent" =>
            \A k \in ParamKeys :
                LET vs == ValuesFor(net[r][1].query, k)
                    local == rq[r].local[k]
                    wide == client.v.params.url_params[k]
                IN  /\ local # "absent" => vs = <<local>>
                    /\ (local = "absent" /\ wide # "absent") => vs = <<wide>>
                    /\ (local = "absent" /\ wide = "absent") => vs = <<>>

\* Scenario E: the client sets pretty=true, a search request overrides it
\* with pretty=false and is sent with pretty=false once.
C9_Witness ==
    \E r \in Requests :
        /\ rq[r].state = "sent"
        /\ rq[r].kind = "search"
        /\ client.v.params.url_params["pretty"] = "true"
        /\ rq[r].local["pretty"] = "false"
        /\ net[r][1].query = << <<"pretty", "false">> >>

Causes == {JsonError, IoError, ReqwestError, ResponseError_Parse}

\* C11: a request whose send failed ends with Error::Client of kind Request
\* wrapping the transport's failure, never with kind Response or
\* Error::Api; a Request error comes from a failed send only; and every
\* error made by build, request and response(status, non-Api cause) has
\* kind Build, Request and Response(status).
C11_SendFailureIsRequestError ==
    /\ \A r \in Requests :
          /\ (rq[r].state = "sent" /\ raw[r] = NoneV) =>
                /\ IsRequestError(out[r])
                /\ out[r].err.cause \in NetFailures
                /\ ~IsApiError(out[r])
          /\ (out[r].tag = "Err" /\ out[r].err.variant = "Client") =>
                out[r].err.kind = IF raw[r].tag = "Some"
                                  THEN ErrorKind_Response(raw[r].v.status)
                                  ELSE ErrorKind_Request
    /\ client.tag = "Err" => client.err.kind = ErrorKind_Build
    /\ \A e \in Causes :
          /\ build(e) = Error_Client(ErrorKind_Build, e)
          /\ request(e) = Error_Client(ErrorKind_Request, e)
          /\ \A s \in Statuses : response(s, e) = Error_Client(ErrorKind_Response(s), e)

\* A send timed out: the caller got a Request error wrapping the i/o error,
\* and no response.
C11_Witness ==
    \E r \in Requests :
        /\ rq[r].state = "sent"
        /\ raw[r] = NoneV
        /\ Len(net[r]) = 1
        /\ out[r] = Err(Error_Client(ErrorKind_Request, IoError))

\* The steps of request r so far are in order: at most one send and one
\* parse, a response only after the send, a parse only after the response,
\* and after a failed send the send's error and no parse.
StepsInOrder(r) ==
    /\ Len(net[r]) <= 1
    /\ reads[r] <= 1
    /\ raw[r].tag = "Some" => (rq[r].state = "sent" /\ Len(net[r]) = 1)
    /\ parsed_as[r].tag = "Some" => (raw[r].tag = "Some" /\ reads[r] = 1)
    /\ (rq[r].state = "sent" /\ raw[r] = NoneV) =>
          /\ IsRequestError(out[r])
          /\ parsed_as[r] = NoneV
          /\ reads[r] = 0
          /\ \A T \in ResponseTypes : ~ENABLED AsyncResponseBuilder_into_response(r, T)

\* No later step changes what an earlier one gave: the response received,
\* the type parsed as and an error returned stay as they are.
StepsKeepResults(r) ==
    /\ raw[r].tag = "Some" => raw'[r] = raw[r]
    /\ parsed_as[r].tag = "Some" => parsed_as'[r] = parsed_as[r]
    /\ out[r].tag = "Err" => out'[r] = out[r]

\* C12: within one request send, receive and parse happen in that order
\* and each at most once: no parse before the raw response was received;
\* when the send fails its error is what the caller gets and no parse step
\* runs; and no later step replaces an error already returned.
C12_SendReceiveParseInOrder ==
    /\ [](\A r \in Requests : StepsInOrder(r))
    /\ [][\A r \in Requests : StepsKeepResults(r)]_vars

\* One search request failed to send and got the Request error without a
\* parse; another was sent, received a response and was parsed.
C12_Witness ==
    \E r1, r2 \in Requests :
        /\ rq[r1].state = "sent"
        /\ rq[r1].kind = "search"
        /\ raw[r1] = NoneV
        /\ parsed_as[r1] = NoneV
        /\ IsRequestError(out[r1])
        /\ rq[r2].state = "sent"
        /\ raw[r2].tag = "Some"
        /\ parsed_as[r2].tag = "Some"
        /\ out[r2].tag = "Ok"

(* ------------------------------------------------------------------ *)
(* Claims about concurrent requests                                    *)
(* ------------------------------------------------------------------ *)

\* Everything that belongs to request r.
PerRequest(r) ==
    <<rq[r], net[r], raw[r], rb[r], seen[r], reads[r], out[r], parsed_as[r],
      fut[r], asked[r], resolved[r]>>

\* What request r sent and what its caller got follow from its own
\* descriptor, its own merged parameters and its own raw response.
OwnOutcome(r) ==
    /\ rq[r].state = "sent" =>
          net[r] = <<NetworkCall([client.v.params EXCEPT !.url_params = MergedUrlParams(r)],
                                 DescriptorOf(r))>>
    /\ \/ out[r] = NoneV
       \/ /\ raw[r] = NoneV
          /\ \E e \in NetFailures : out[r] = Err(request(e))
       \/ /\ raw[r].tag = "Some"
          /\ \/ out[r] = AsyncHttpResponse(raw[r].v)
             \/ /\ parsed_as[r].tag = "Some"
                /\ out[r] = into_response(parsed_as[r].v, raw[r].v)

\* No order is imposed between two requests: whichever is ready for its
\* next step can take it.
NoOrderImposed(r1, r2) ==
    /\ (rq[r1].state = "built" /\ rq[r2].state = "built") =>
          \A r \in {r1, r2}, o \in NetOutcomes :
              ENABLED RawRequestBuilder_send(r, o) \/ ENABLED SearchRequestBuilder_send(r, o)
    /\ (rb[r1] = "live" /\ rb[r2] = "live") =>
          \A r \in {r1, r2}, T \in ResponseTypes :
              ENABLED AsyncResponseBuilder_into_response(r, T)

\* C14: for requests issued from one shared client, under every
\* interleaving of their steps, each request is sent with its own
\* descriptor and its own merged parameters and its outcome follows from
\* its own raw response; a step of one request changes nothing of another
\* request nor the client; and no order between them is imposed.
C14_RequestsAreIndependent ==
    /\ [](\A r \in Requests : OwnOutcome(r))
    /\ [](\A r1, r2 \in Requests : r1 # r2 => NoOrderImposed(r1, r2))
    /\ [][\A r1, r2 \in Requests :
            (r1 # r2 /\ PerRequest(r1)' # PerRequest(r1))
            => (PerRequest(r2)' = PerRequest(r2) /\ client' = client)]_vars

\* Two requests of a client with pretty=true: the later one overrode it
\* with pretty=false and failed to send, the earlier one kept the client's
\* value and was parsed to a success.
C14_Witness ==
    \E r1, r2 \in Requests :
        /\ r1 < r2
        /\ rq[r1].state = "sent"
        /\ rq[r2].state = "sent"
        /\ client.v.params.url_params["pretty"] = "true"
        /\ rq[r1].local["pretty"] = "absent"
        /\ rq[r2].local["pretty"] = "false"
        /\ net[r1][1].query = << <<"pretty", "true">> >>
        /\ net[r2][1].query = << <<"pretty", "false">> >>
        /\ out[r1].tag = "Ok"
        /\ IsRequestError(out[r2])

(* ------------------------------------------------------------------ *)
(* Claims about the search request builder                             *)
(* ------------------------------------------------------------------ *)

\* The url for the index and type last set: /<index>/_search or
\* /<index>/<type>/_search, the index being _all when none was set.
ExpectedUrl(a) ==
    LET index == IF a.index.tag = "Some" THEN a.index.v ELSE "_all"
    IN  IF a.ty.tag = "Some" THEN <<index, a.ty.v, "_search">>
        ELSE <<index, "_search">>

\* The requests the caller has seen of request r: what its builder resolves
\* to, what it was resolved to, and what went on the wire.
UrlsOf(r) ==
    (IF rq[r].state = "built" THEN {into_request(rq[r].req).url} ELSE {})
    \cup {c.url : c \in resolved[r]}
    \cup {net[r][i].url : i \in 1..Len(net[r])}

BodiesOf(r) ==
    (IF rq[r].state = "built" THEN {into_request(rq[r].req).body} ELSE {})
    \cup {c.body : c \in resolved[r]}
    \cup {net[r][i].body : i \in 1..Len(net[r])}

IsSearch(r) == rq[r].state # "none" /\ rq[r].kind = "search"

\* C17: the url of a search request is that of the index and the type last
\* set on its builder: _all for the index when none was set, no type
\* segment when no type was set or the last one set was None.
C17_UrlFromLastIndexAndType ==
    \A r \in Requests :
        IsSearch(r) => UrlsOf(r) = {ExpectedUrl(asked[r])}

\* A search with a type and no index was resolved to /_all/new-ty/_search.
C17_Witness ==
    \E r \in Requests :
        /\ rq[r].state = "resolved"
        /\ asked[r].index = NoneV
        /\ asked[r].ty = Some("new-ty")
        /\ \E c \in resolved[r] : c.url = <<"_all", "new-ty", "_search">>

\* The request that the index, type and body last set stand for.
ExpectedRequest(a) ==
    [method |-> "POST", url |-> ExpectedUrl(a), body |-> a.body]

\* What a body() step leaves alone: the index, the type and the request's
\* own parameters.
BodyStepFrame(r) ==
    /\ rq'[r].req.index = rq[r].req.index
    /\ rq'[r].req.ty = rq[r].req.ty
    /\ rq'[r].params = rq[r].params
    /\ rq'[r].local = rq[r].local
    /\ asked'[r].index = asked[r].index
    /\ asked'[r].ty = asked[r].ty

\* C18: body(b) on a search builder replaces the body only: the request
\* then has body b and the index, type and request-local parameters set
\* before; with no body() call the body is the empty default; and in
\* whatever order index, ty, body (and params) were applied, the request is
\* the one for the index, type and body last set, sent with the request's
\* own parameters.
C18_BodyReplacesOnlyBody ==
    /\ [](\A r \in Requests :
            IsSearch(r) =>
                /\ BodiesOf(r) = {asked[r].body}
                /\ rq[r].state = "built" =>
                      /\ into_request(rq[r].req) = ExpectedRequest(asked[r])
                      /\ ParamsOf(rq[r].params).url_params = MergedUrlParams(r)
                /\ \A c \in resolved[r] :
                      /\ [method |-> c.method, url |-> c.url, body |-> c.body]
                           = ExpectedRequest(asked[r])
                      /\ c.query = QueryFrom(MergedUrlParams(r), 1))
    /\ [][\A r \in Requests, b \in SearchBodies :
            RequestBuilder_body(r, b) => (rq'[r].req.body = b /\ BodyStepFrame(r))]_vars

\* A search with an index, a type, parameters of its own and then a body
\* was resolved to a request with all four.
C18_Witness ==
    \E r \in Requests :
        /\ rq[r].state = "resolved"
        /\ rq[r].local["pretty"] = "false"
        /\ resolved[r] = {[method |-> "POST",
                           url |-> <<"new-idx", "new-ty", "_search">>,
                           body |-> "{}",
                           base_url |-> client.v.params.base_url,
                           headers |-> client.v.params.headers,
                           query |-> << <<"pretty", "false">> >>]}

\* The inputs of request r's resolution: what was asked of its builder,
\* its own overrides and the client's parameters.
ResolutionInputs(r) == <<asked[r], rq[r].local, client.v.params>>

C19_GetScenarios ==
    \A r \in Requests :
        (Parsed(r) /\ parsed_as[r].v = "GetResponse") =>
            LET resp == raw[r].v
            IN  /\ resp = [status |-> 200, body |-> JsonBody(TreeFound)]
                   => (out[r].tag = "Ok" /\ into_document(out[r].v) = Some("doc"))
                /\ resp = [status |-> 200, body |-> JsonBody(TreeNotFound)]
                   => (out[r].tag = "Ok" /\ into_document(out[r].v) = NoneV)
                /\ resp = [status |-> 404, body |-> JsonBody(TreeIndexNotFound)]
                   => out[r] = Err(Error_Api([kind |-> "IndexNotFound"]))

\* Scenario B has happened: a 200 with found: false was parsed as a
\* GetResponse and is Ok with no document.
C19_Witness ==
    \E r \in Requests :
        /\ Parsed(r)
        /\ parsed_as[r].v = "GetResponse"
        /\ raw[r].v = [status |-> 200, body |-> JsonBody(TreeNotFound)]
        /\ out[r].tag = "Ok"
        /\ into_document(out[r].v) = NoneV

(* ------------------------------------------------------------------ *)
(* Claims about the non-blocking model                                 *)
(* ------------------------------------------------------------------ *)

\* The deferred computation of request r has run to a parsed result.
ParsedDeferred(r) ==
    fut[r].state = "done" /\ raw[r].tag = "Some" /\ parsed_as[r].tag = "Some"

\* C15 as stated: with a worker pool configured on the sender the parse of
\* into_response runs on the pool and the request suspends at two points,
\* the network round-trip and the pool task; with none it runs inline on
\* the completing thread and the request suspends at the network
\* round-trip only; the result is that of the parse in both cases.
C15_Original ==
    \A r \in Requests :
        ParsedDeferred(r) =>
            /\ out[r] = into_response(parsed_as[r].v, raw[r].v)
            /\ IF client.v.sender.de_pool.tag = "Some"
               THEN fut[r].thread = "pool" /\ fut[r].points = <<"network", "pool">>
               ELSE fut[r].thread = "reactor" /\ fut[r].points = <<"network">>

\* A client built with the default pool of four threads parsed a response
\* inline, having suspended at the network round-trip only.
C15_Witness ==
    \E r \in Requests :
        /\ ParsedDeferred(r)
        /\ client.v.sender.de_pool = Some(CpuPool_new(4))
        /\ fut[r].thread = "reactor"
        /\ fut[r].points = <<"network">>
        /\ out[r] = into_response(parsed_as[r].v, raw[r].v)

\* What a step leaves of a dropped computation: its state, and everything
\* the continuation would have produced.
DroppedStaysDropped(r) ==
    fut[r].state = "dropped" =>
        /\ fut'[r].state = "dropped"
        /\ out'[r] = out[r]
        /\ raw'[r] = raw[r]
        /\ rb'[r] = rb[r]
        /\ reads'[r] = reads[r]
        /\ parsed_as'[r] = parsed_as[r]

\* C16: once the deferred computation of a request was dropped before it
\* completed, its continuation never runs: no response is handed to it, no
\* parse starts and the caller gets no result, in any later step; the
\* network request still in flight can run to completion at the transport.
C16_DroppedNeverContinues ==
    /\ [](\A r \in Requests :
            fut[r].state = "dropped" =>
                /\ out[r] = NoneV
                /\ ~ENABLED Reactor_deliver(r)
                /\ ~ENABLED Future_poll(r)
                /\ \A T \in ResponseTypes :
                      ~ENABLED AsyncResponseBuilder_into_response_future(r, T)
                /\ fut[r].wire = "inflight" =>
                      \A o \in NetOutcomes : ENABLED Transport_complete(r, o))
    /\ [][\A r \in Requests : DroppedStaysDropped(r)]_vars

\* A computation was dropped while its request was in flight; the request
\* then completed at the transport with a response, which nobody parsed.
C16_Witness ==
    \E r \in Requests :
        /\ fut[r].state = "dropped"
        /\ fut[r].wire = "completed"
        /\ fut[r].arrived.v.tag = "Ok"
        /\ raw[r] = NoneV
        /\ parsed_as[r] = NoneV
        /\ out[r] = NoneV

BuiltByBuilder == cb.kind # "none" /\ client # NoneV

\* C21 as stated: for both builders, when an HTTP client was given with
\* http_client(), build() makes it the sender's transport, constructs no
\* transport handle and does not fail; when none was given build()
\* constructs one handle and fails exactly when that construction fails,
\* with a Build error.
C21_Original ==
    BuiltByBuilder =>
        IF cb.given.tag = "Some"
        THEN /\ client.tag = "Ok"
             /\ client.v.sender.http = cb.given.v
             /\ transport = <<>>
        ELSE /\ Len(transport) = 1
             /\ client.tag = "Ok" <=> transport[1]
             /\ client.tag = "Ok" => client.v.sender.http = "new"
             /\ client.tag = "Err" => client.err = build(ReqwestError)

\* An AsyncClientBuilder that was given an HTTP client built a client
\* around it, and constructed a transport handle on the way, the
\* construction failing unnoticed.
C21_Witness ==
    /\ BuiltByBuilder
    /\ cb.kind = "async"
    /\ cb.given = Some("given")
    /\ client.tag = "Ok"
    /\ client.v.sender.http = "given"
    /\ transport = <<FALSE>>

\* A non-blocking client was constructed.
AsyncClientBuilt == client.tag = "Ok" /\ client.v.sender.kind = "async"

\* C22 as stated: the pool of a non-blocking sender is the value last
\* passed to de_pool(), and there is none when the caller configured none,
\* through the builder as through Client::new.
C22_Original ==
    AsyncClientBuilt =>
        client.v.sender.de_pool =
            IF cb.kind = "async" /\ cb.pool_passed.tag = "Some"
            THEN cb.pool_passed.v
            ELSE NoneV

\* C22 amended: the pool of a sender built by an AsyncClientBuilder is the
\* value last passed to de_pool() (None meaning inline execution) and,
\* when de_pool() was never called, the pool of four threads that
\* AsyncClientBuilder::new() created; the sender of Client::new has no pool.
C22_PoolAsPassedOrDefault ==
    AsyncClientBuilt =>
        client.v.sender.de_pool =
            IF cb.kind = "async"
            THEN IF cb.pool_passed.tag = "Some" THEN cb.pool_passed.v
                 ELSE Some(CpuPool_new(4))
            ELSE NoneV

\* A builder, which starts with a pool of four threads, was last told
\* de_pool(None): the sender it built has no pool.
C22_Witness ==
    /\ AsyncClientBuilt
    /\ cb.kind = "async"
    /\ cb.pool_passed = Some(NoneV)
    /\ client.v.sender.de_pool = NoneV

====
